---- MODULE Spec2Model ----
(***************************************************************************)
(* bevy-console: the ANSI styling pipeline of the console window, the      *)
(* line reader of the attached terminal and the command parameter.         *)
(*                                                                         *)
(*   color.rs      parse_ansi_styled_str, parse_graphics_mode,             *)
(*                 ansi_color_code_to_color32                              *)
(*   console.rs    default_style, style_ansi_text (called by console_ui    *)
(*                 for every scrollback line, every frame),                *)
(*                 ConsoleCommand::get_param, ConsoleCommand::take         *)
(*   rustyline.rs  setup_rustyline, read_rustyline, str_to_command         *)
(*                                                                         *)
(* A string is a sequence of bytes; a byte is written as a one-character   *)
(* string, and the escape byte 0x1b as "ESC".                              *)
(***************************************************************************)
EXTENDS Integers, Sequences, FiniteSets

(***************************************************************************)
(* Input strings: concatenations of at most MaxChunks chunks.              *)
(***************************************************************************)
MaxChunks == 4

ESC == "ESC"

RECURSIVE Params(_)
Params(ps) == IF Len(ps) = 1 THEN ps[1] ELSE ps[1] \o <<";">> \o Params(Tail(ps))

\* ESC [ p ; ... ; p m
Sgr(ps) == <<ESC, "[">> \o Params(ps) \o <<"m">>

Chunks ==
    { <<"a">>,                                        \* a byte of plain text
      Sgr(<< <<"0">> >>),                             \* reset
      Sgr(<< <<"1">> >>),                             \* bold
      Sgr(<< <<"2">>, <<"3">>, <<"4">> >>),           \* dim, italic, underline
      Sgr(<< <<"3", "1">> >>),                        \* foreground red
      Sgr(<< <<"9">>, <<"4", "1">> >>),               \* strikethrough, background red
      <<ESC, "[", "2", "J">>,                         \* erase display: an escape that
                                                      \* is not graphics mode
      <<ESC, "[", "1">> }                             \* an escape that is cut short

RECURSIVE Flatten(_)
Flatten(cs) == IF cs = <<>> THEN <<>> ELSE Head(cs) \o Flatten(Tail(cs))

Inputs == UNION { { Flatten(cs) : cs \in [1..n -> Chunks] } : n \in 0..MaxChunks }

(***************************************************************************)
(* color.rs                                                                *)
(***************************************************************************)
\* the largest u8
U8Max == 255

\* mutant: the channels are stored in the opposite order
from_bgr(r, g, b) == <<b, g, r>>

from_rgb(r, g, b) == <<r, g, b>>

ansi_color_code_to_color32(color_code) ==
    CASE color_code = 1 -> from_rgb(222, 56, 43)
      [] color_code = 2 -> from_rgb(57, 181, 74)
      [] color_code = 3 -> from_rgb(255, 199, 6)
      [] color_code = 4 -> from_rgb(0, 111, 184)
      [] color_code = 5 -> from_rgb(118, 38, 113)
      [] color_code = 6 -> from_rgb(44, 181, 233)
      [] color_code = 7 -> from_rgb(204, 204, 204)
      [] color_code = 8 -> from_rgb(128, 128, 128)
      [] color_code = 9 -> from_rgb(255, 0, 0)
      [] color_code = 10 -> from_rgb(0, 255, 0)
      [] color_code = 11 -> from_rgb(255, 255, 0)
      [] color_code = 12 -> from_rgb(0, 0, 255)
      [] color_code = 13 -> from_rgb(255, 0, 255)
      [] color_code = 14 -> from_rgb(0, 255, 255)
      [] color_code = 15 -> from_rgb(255, 255, 255)
      [] OTHER -> from_rgb(1, 1, 1)

\* enum TextFormattingOverride; c is the Colour of Foreground and Background
NoColour == <<>>
Reset == [tag |-> "Reset", c |-> NoColour]
Bold == [tag |-> "Bold", c |-> NoColour]
Dim == [tag |-> "Dim", c |-> NoColour]
Italic == [tag |-> "Italic", c |-> NoColour]
Underline == [tag |-> "Underline", c |-> NoColour]
Strikethrough == [tag |-> "Strikethrough", c |-> NoColour]
Foreground(c) == [tag |-> "Foreground", c |-> c]
Background(c) == [tag |-> "Background", c |-> c]

\* mutant: the arm of 9 is missing and the colours start at 31 and 41
GraphicsModeOfShifted(mode) ==
    CASE mode = 0 -> Reset
      [] mode = 1 -> Bold
      [] mode = 2 -> Dim
      [] mode = 3 -> Italic
      [] mode = 4 -> Underline
      [] mode \in 31..38 -> Foreground(ansi_color_code_to_color32(mode - 31))
      [] mode \in 41..48 -> Background(ansi_color_code_to_color32(mode - 41))
      [] OTHER -> Reset

\* the match of parse_graphics_mode, for one parameter byte
GraphicsModeOf(mode) ==
    CASE mode = 0 -> Reset
      [] mode = 1 -> Bold
      [] mode = 2 -> Dim
      [] mode = 3 -> Italic
      [] mode = 4 -> Underline
      [] mode = 9 -> Strikethrough
      [] mode \in 30..37 -> Foreground(ansi_color_code_to_color32(mode - 30))
      [] mode \in 40..47 -> Background(ansi_color_code_to_color32(mode - 40))
      [] OTHER -> Reset

\* mutant: a parameter that no arm names is skipped
RECURSIVE InsertKnownModes(_, _)
InsertKnownModes(modes, results) ==
    IF modes = <<>> THEN results
    ELSE IF Head(modes) \in ({0, 1, 2, 3, 4, 9} \cup (30..37) \cup (40..47))
         THEN InsertKnownModes(Tail(modes), results \cup {GraphicsModeOf(Head(modes))})
    ELSE InsertKnownModes(Tail(modes), results)

RECURSIVE InsertModes(_, _)
InsertModes(modes, results) ==
    IF modes = <<>> THEN results
    ELSE InsertModes(Tail(modes), results \cup {GraphicsModeOf(Head(modes))})

parse_graphics_mode(modes) == InsertModes(modes, {})

(***************************************************************************)
(* ansi_string.ansi_parse(): the iterator of the ansi-parser crate, over   *)
(* the bytes that the input strings above are made of.  `dat` is what is   *)
(* left of the string.  An escape byte that starts no sequence the crate   *)
(* knows is handed out as text, with everything up to the next escape.     *)
(***************************************************************************)
Digits == <<"0", "1", "2", "3", "4", "5", "6", "7", "8", "9">>

IsDigit(b) == \E n \in DOMAIN Digits : Digits[n] = b

DigitVal(b) == (CHOOSE n \in DOMAIN Digits : Digits[n] = b) - 1

RECURSIVE DigitsEnd(_, _)
DigitsEnd(d, i) == IF i <= Len(d) /\ IsDigit(d[i]) THEN DigitsEnd(d, i + 1) ELSE i

RECURSIVE Decimal(_)
Decimal(ds) ==
    IF ds = <<>> THEN 0
    ELSE 10 * Decimal(SubSeq(ds, 1, Len(ds) - 1)) + DigitVal(ds[Len(ds)])

NoParse == [ok |-> FALSE, seq |-> "", mode |-> <<>>, len |-> 0]

\* "[" u8 { ";" u8 } "m", the parameters being bytes and at most five
RECURSIVE GraphicsModeAt(_, _, _)
GraphicsModeAt(d, i, mode) ==
    LET j == DigitsEnd(d, i)
        v == Decimal(SubSeq(d, i, j - 1))
    IN  IF j = i \/ v > 255 \/ j > Len(d) \/ Len(mode) >= 5 THEN NoParse
        ELSE IF d[j] = ";" THEN GraphicsModeAt(d, j + 1, Append(mode, v))
        ELSE IF d[j] = "m"
             THEN [ok |-> TRUE, seq |-> "SetGraphicsMode", mode |-> Append(mode, v), len |-> j]
        ELSE NoParse

\* parse_escape of the crate, on a string that starts with the escape byte
parse_escape(d) ==
    IF Len(d) < 2 \/ d[2] # "[" THEN NoParse
    ELSE LET g == GraphicsModeAt(d, 3, <<>>)
         IN  IF g.ok THEN g
             ELSE IF Len(d) >= 4 /\ d[3] = "2" /\ d[4] = "J"
                  THEN [ok |-> TRUE, seq |-> "EraseDisplay", mode |-> <<>>, len |-> 4]
             ELSE NoParse

RECURSIVE FindEsc(_, _)
FindEsc(d, from) ==
    IF from > Len(d) THEN 0
    ELSE IF d[from] = ESC THEN from
    ELSE FindEsc(d, from + 1)

TextBlock(d, n) ==
    [kind |-> "TextBlock", t |-> SubSeq(d, 1, n), seq |-> "", mode |-> <<>>,
     rest |-> SubSeq(d, n + 1, Len(d))]

\* AnsiParseIterator::next on a string that is not empty
ansi_parse_next(d) ==
    LET loc == FindEsc(d, 1)
    IN  IF loc = 0 THEN TextBlock(d, Len(d))
        ELSE IF loc > 1 THEN TextBlock(d, loc - 1)
        ELSE LET res == parse_escape(d)
             IN  IF res.ok
                 THEN [kind |-> "Escape", t |-> <<>>, seq |-> res.seq, mode |-> res.mode,
                       rest |-> SubSeq(d, res.len + 1, Len(d))]
                 ELSE LET nxt == FindEsc(d, 2)
                      IN  IF nxt = 0 THEN TextBlock(d, Len(d))
                          ELSE TextBlock(d, nxt - 1)

(***************************************************************************)
(* strip_ansi_escapes::strip_str: the vte state machine, which prints the  *)
(* bytes it meets in its ground state and swallows an escape byte and the  *)
(* sequence it starts: "[" opens a control sequence, whose parameters are  *)
(* digits and ";" and which ends at the first other byte.                  *)
(***************************************************************************)
RECURSIVE Strip(_, _, _)
Strip(d, state, out) ==
    IF d = <<>> THEN out
    ELSE LET b == Head(d)
         IN  IF b = ESC THEN Strip(Tail(d), "Escape", out)
             ELSE IF state = "Ground" THEN Strip(Tail(d), "Ground", Append(out, b))
             ELSE IF state = "Escape"
                  THEN Strip(Tail(d), IF b = "[" THEN "CsiEntry" ELSE "Ground", out)
             ELSE Strip(Tail(d), IF IsDigit(b) \/ b = ";" THEN "CsiEntry" ELSE "Ground", out)

strip_str(s) == Strip(s, "Ground", <<>>)

(***************************************************************************)
(* console.rs: the styles.  A TextFormat is the fields style_ansi_text     *)
(* writes; a Color32 is premultiplied RGBA; a Stroke is width and colour.  *)
(***************************************************************************)
\* impl Into<Color32> for Colour
Color32(c) == <<c[1], c[2], c[3], 255>>

TRANSPARENT == <<0, 0, 0, 0>>

Stroke(width, c) == [width |-> width, color |-> Color32(c)]

StrokeNone == [width |-> 0, color |-> TRANSPARENT]

\* ConsoleConfiguration::default(), the field the styles read
config == [foreground_color |-> from_rgb(220, 220, 220)]

default_style(cfg) ==
    [size |-> 14, italics |-> FALSE, underline |-> StrokeNone,
     strikethrough |-> StrokeNone, color |-> Color32(cfg.foreground_color),
     background |-> TRANSPARENT]

\* mutant: Italic flips the flag
ApplyOverrideToggle(style, o, cfg) ==
    CASE o.tag = "Bold" -> [style EXCEPT !.size = 16]
      [] o.tag = "Dim" -> [style EXCEPT !.size = 12]
      [] o.tag = "Italic" -> [style EXCEPT !.italics = ~style.italics]
      [] o.tag = "Underline" ->
            [style EXCEPT !.underline = Stroke(1, cfg.foreground_color)]
      [] o.tag = "Strikethrough" ->
            [style EXCEPT !.strikethrough = Stroke(1, cfg.foreground_color)]
      [] o.tag = "Foreground" -> [style EXCEPT !.color = Color32(o.c)]
      [] o.tag = "Background" -> [style EXCEPT !.background = Color32(o.c)]
      [] OTHER -> style

\* mutant: Reset is met in the loop, in the order the set hands it out
ApplyOverrideResetInTurn(style, o, cfg) ==
    CASE o.tag = "Reset" -> default_style(cfg)
      [] o.tag = "Bold" -> [style EXCEPT !.size = 16]
      [] o.tag = "Dim" -> [style EXCEPT !.size = 12]
      [] o.tag = "Italic" -> [style EXCEPT !.italics = TRUE]
      [] o.tag = "Underline" ->
            [style EXCEPT !.underline = Stroke(1, cfg.foreground_color)]
      [] o.tag = "Strikethrough" ->
            [style EXCEPT !.strikethrough = Stroke(1, cfg.foreground_color)]
      [] o.tag = "Foreground" -> [style EXCEPT !.color = Color32(o.c)]
      [] o.tag = "Background" -> [style EXCEPT !.background = Color32(o.c)]
      [] OTHER -> style

\* one turn of `for o in overrides`: the match on o
ApplyOverride(style, o, cfg) ==
    CASE o.tag = "Bold" -> [style EXCEPT !.size = 16]
      [] o.tag = "Dim" -> [style EXCEPT !.size = 12]
      [] o.tag = "Italic" -> [style EXCEPT !.italics = TRUE]
      [] o.tag = "Underline" ->
            [style EXCEPT !.underline = Stroke(1, cfg.foreground_color)]
      [] o.tag = "Strikethrough" ->
            [style EXCEPT !.strikethrough = Stroke(1, cfg.foreground_color)]
      [] o.tag = "Foreground" -> [style EXCEPT !.color = Color32(o.c)]
      [] o.tag = "Background" -> [style EXCEPT !.background = Color32(o.c)]
      [] OTHER -> style

\* mutant: Reset is not looked for
ResetStyleNever(style, overrides, cfg) == style

\* `if overrides.contains(&Reset) { current_style = default_style(config) }`
ResetStyle(style, overrides, cfg) ==
    IF Reset \in overrides THEN default_style(cfg) ELSE style

\* LayoutJob::default() and LayoutJob::append(text, 0, format)
EmptyJob == [text |-> <<>>, sections |-> <<>>]

LayoutAppend(job, text, format) ==
    [text |-> job.text \o text,
     sections |-> Append(job.sections,
                         [byte_range |-> <<Len(job.text), Len(job.text) + Len(text)>>,
                          format |-> format])]

\* mutant: the slice is appended also when it is empty
AppendRunAlways(job, text, format) == LayoutAppend(job, text, format)

\* `if !text.is_empty() { layout_job.append(text, 0f32, current_style.clone()) }`
AppendRun(job, text, format) ==
    IF text # <<>> THEN LayoutAppend(job, text, format) ELSE job

\* `&str_without_ansi[last_offset..offset]` is in range
SliceInRange(s, from, to) == from <= to /\ to <= Len(s)

Slice(s, from, to) == SubSeq(s, from + 1, to)

(***************************************************************************)
(* The state: one call of style_ansi_text(str, config) after the other.    *)
(***************************************************************************)
VARIABLES
    str,            \* the scrollback line
    pc,             \* "parse", "style", "apply", "done" or "panic"
    dat,            \* parse_ansi_styled_str: what ansi_parse() has left
    offset,         \* parse_ansi_styled_str: offset
    result,         \* parse_ansi_styled_str: result
    entries,        \* style_ansi_text: what the chained iterator has left
    cur,            \* style_ansi_text: (offset, overrides) of this turn, with
                    \* the overrides the inner loop has not yet met
    last_offset,    \* style_ansi_text: last_offset
    current_style,  \* style_ansi_text: current_style
    layout_job,     \* style_ansi_text: layout_job
    prev_job,       \* the LayoutJob of the frame before, NoJob in the first
    fn,             \* color.rs: the function that is called on its own
    arg,            \* color.rs: its argument
    returned,       \* color.rs: it has returned
    ret,            \* color.rs: what it returned
    rl,             \* rustyline.rs: what rl.readline("") is still to return, the
                    \* lines and errors of the terminal in their order
    reader,         \* rustyline.rs: the thread: "spawned", "readline", "returned"
    channel,        \* rustyline.rs: the messages between tx and rx
    sent,           \* history: every message tx.send was given, in order
    received,       \* history: every message try_recv handed out, in order
    evw_consolecommand,  \* rustyline.rs: the ConsoleCommandEntered events sent
    evw_interrupt,  \* rustyline.rs: the ConsoleInterrupted events sent
    cpc,            \* a system with a ConsoleCommand<T>: "get_param" or "run"
    unread,         \* console.rs: the events event_reader has not read yet
    command,        \* console.rs: ConsoleCommand::command
    console_line,   \* console.rs: the PrintConsoleLine events sent
    taken,          \* history: what the calls of take returned, in this run
    ui_pc,          \* console_ui: "run", or the panic it ended in
    console_config, \* console.rs: the ConsoleConfiguration resource
    console_open,   \* console.rs: ConsoleOpen::open
    state,          \* console.rs: the ConsoleState resource
    command_entered,  \* console_ui: the ConsoleCommandEntered events its last
                    \* run sent
    frame           \* the input of the system that ran last: the events and
                    \* the egui responses of its frame

styling == <<str, pc, dat, offset, result, entries, cur, last_offset, current_style,
             layout_job, prev_job>>

decoding == <<fn, arg, returned, ret>>

lineReading == <<rl, reader, channel, sent, received, evw_consolecommand,
                 evw_interrupt>>

commanding == <<cpc, unread, command, console_line, taken>>

consoleUi == <<ui_pc, console_config, console_open, state, command_entered, frame>>

vars == <<styling, decoding, lineReading, commanding, consoleUi>>

\* everything but the variables of style_ansi_text
NotStyling == <<decoding, lineReading, commanding, consoleUi>>

NotDecoding == <<styling, lineReading, commanding, consoleUi>>

NotLineReading == <<styling, decoding, commanding, consoleUi>>

NotCommanding == <<styling, decoding, lineReading, consoleUi>>

NotConsoleUi == <<styling, decoding, lineReading, commanding>>

\* Option: None and Some(x)
None == <<>>

Some(x) == <<x>>

\* no function of color.rs is called on its own
DecodeIdle == fn = "none" /\ arg = <<>> /\ returned = FALSE /\ ret = {}

\* no terminal is attached: setup_rustyline was not called
LineIdle ==
    /\ rl = <<>>
    /\ reader = "none"
    /\ channel = <<>>
    /\ sent = <<>>
    /\ received = <<>>
    /\ evw_consolecommand = <<>>
    /\ evw_interrupt = <<>>

\* no system with a ConsoleCommand<T> is run
CommandIdle ==
    /\ cpc = "none"
    /\ unread = <<>>
    /\ command = None
    /\ console_line = <<>>
    /\ taken = <<>>

\* ConsoleConfiguration::default(), the fields console_ui reads
DefaultConfiguration ==
    [keys |-> <<"Backquote">>, history_size |-> 20, symbol |-> <<"$", " ">>,
     commands |-> {}]

\* ConsoleState::default()
DefaultState ==
    [buf |-> <<>>, scrollback |-> <<>>, history |-> << <<>> >>, history_index |-> 0]

NoFrame == [system |-> "none"]

\* the console window is not run
ConsoleIdle ==
    /\ ui_pc = "none"
    /\ console_config = DefaultConfiguration
    /\ console_open = FALSE
    /\ state = DefaultState
    /\ command_entered = <<>>
    /\ frame = NoFrame

NoJob == [text |-> <<"none">>, sections |-> <<>>]

NoEntry == [offset |-> 0, overrides |-> {}]

str_without_ansi == strip_str(str)

\* the locals of a call at its start, the parser at the start of the string
Call ==
    /\ pc' = "parse"
    /\ dat' = str
    /\ offset' = 0
    /\ result' = <<>>
    /\ entries' = <<>>
    /\ cur' = NoEntry
    /\ last_offset' = 0
    /\ current_style' = default_style(config)
    /\ layout_job' = EmptyJob

Init ==
    /\ str \in Inputs
    /\ pc = "parse"
    /\ dat = str
    /\ offset = 0
    /\ result = <<>>
    /\ entries = <<>>
    /\ cur = NoEntry
    /\ last_offset = 0
    /\ current_style = default_style(config)
    /\ layout_job = EmptyJob
    /\ prev_job = NoJob
    /\ DecodeIdle /\ LineIdle /\ CommandIdle /\ ConsoleIdle

StyleVars == <<entries, cur, last_offset, current_style, layout_job, prev_job>>

\* mutant: a text block counts as one byte, whatever its length
ScanTextBlockOneByte ==
    /\ pc = "parse" /\ dat # <<>>
    /\ LET element == ansi_parse_next(dat)
       IN  /\ element.kind = "TextBlock"
           /\ offset' = offset + 1
           /\ dat' = element.rest
    /\ UNCHANGED <<str, pc, result, StyleVars>>
    /\ UNCHANGED NotStyling

\* ansi_parser::Output::TextBlock(t) => offset += t.len()
ScanTextBlock ==
    /\ pc = "parse" /\ dat # <<>>
    /\ LET element == ansi_parse_next(dat)
       IN  /\ element.kind = "TextBlock"
           /\ offset' = offset + Len(element.t)
           /\ dat' = element.rest
    /\ UNCHANGED <<str, pc, result, StyleVars>>
    /\ UNCHANGED NotStyling

\* mutant: every escape gets an entry of its own
PushAlways(res, off, modes) == Append(res, [offset |-> off, overrides |-> modes])

\* mutant: the escape at the same offset replaces the set of the last entry
PushOrReplace(res, off, modes) ==
    IF res # <<>> /\ res[Len(res)].offset = off
    THEN [res EXCEPT ![Len(res)].overrides = modes]
    ELSE Append(res, [offset |-> off, overrides |-> modes])

\* the body of `if let SetGraphicsMode(mode) = escape`
PushOrMerge(res, off, modes) ==
    IF res # <<>> /\ res[Len(res)].offset = off
    THEN [res EXCEPT ![Len(res)].overrides = @ \cup modes]
    ELSE Append(res, [offset |-> off, overrides |-> modes])

ScanGraphicsMode ==
    /\ pc = "parse" /\ dat # <<>>
    /\ LET element == ansi_parse_next(dat)
       IN  /\ element.kind = "Escape" /\ element.seq = "SetGraphicsMode"
           /\ result' = PushOrMerge(result, offset, parse_graphics_mode(element.mode))
           /\ dat' = element.rest
    /\ UNCHANGED <<str, pc, offset, StyleVars>>
    /\ UNCHANGED NotStyling

\* mutant: the bytes of an escape that is not graphics mode count as text
ScanOtherEscapeCounted ==
    /\ pc = "parse" /\ dat # <<>>
    /\ LET element == ansi_parse_next(dat)
       IN  /\ element.kind = "Escape" /\ element.seq # "SetGraphicsMode"
           /\ offset' = offset + (Len(dat) - Len(element.rest))
           /\ dat' = element.rest
    /\ UNCHANGED <<str, pc, result, StyleVars>>
    /\ UNCHANGED NotStyling

\* an escape that is not SetGraphicsMode
ScanOtherEscape ==
    /\ pc = "parse" /\ dat # <<>>
    /\ LET element == ansi_parse_next(dat)
       IN  /\ element.kind = "Escape" /\ element.seq # "SetGraphicsMode"
           /\ dat' = element.rest
    /\ UNCHANGED <<str, pc, offset, result, StyleVars>>
    /\ UNCHANGED NotStyling

\* .chain(once((str_without_ansi.len(), Default::default())))
Chained(res, plain) == res \o <<[offset |-> Len(plain), overrides |-> {}]>>

\* the parser returns result; style_ansi_text starts its loop
ScanEnd ==
    /\ pc = "parse" /\ dat = <<>>
    /\ pc' = "style"
    /\ entries' = Chained(result, str_without_ansi)
    /\ UNCHANGED <<str, dat, offset, result, cur, last_offset, current_style,
                   layout_job, prev_job>>
    /\ UNCHANGED NotStyling

\* mutant: every turn starts from the base style
StyleAfterRunFresh(style, overrides, cfg) == default_style(cfg)

\* the style the inner loop starts from: `let mut current_style` lives across
\* the turns, and Reset is looked for after the run is appended
StyleAfterRun(style, overrides, cfg) == ResetStyle(style, overrides, cfg)

\* mutant: Reset is looked for before the run is appended
RunFormatAfterReset(style, overrides, cfg) == ResetStyle(style, overrides, cfg)

\* the style the run is appended with: `current_style.clone()`, the overrides
\* of the turn not yet looked at
RunFormat(style, overrides, cfg) == style

\* one turn of the loop over the chained entries, up to `for o in overrides`;
\* with no override to meet the turn ends here, `last_offset = offset`
StyleEntry ==
    /\ pc = "style" /\ entries # <<>>
    /\ LET e == Head(entries)
       IN  IF ~SliceInRange(str_without_ansi, last_offset, e.offset)
           THEN /\ pc' = "panic"
                /\ UNCHANGED <<entries, cur, last_offset, current_style, layout_job>>
           ELSE /\ layout_job' =
                       AppendRun(layout_job,
                                 Slice(str_without_ansi, last_offset, e.offset),
                                 RunFormat(current_style, e.overrides, config))
                /\ current_style' = StyleAfterRun(current_style, e.overrides, config)
                /\ entries' = Tail(entries)
                /\ IF e.overrides = {}
                   THEN /\ pc' = "style" /\ last_offset' = e.offset /\ cur' = NoEntry
                   ELSE /\ pc' = "apply" /\ last_offset' = last_offset /\ cur' = e
    /\ UNCHANGED <<str, dat, offset, result, prev_job>>
    /\ UNCHANGED NotStyling

\* one turn of `for o in overrides`: the HashSet hands out any member it has
\* not handed out yet, its hasher being seeded at random; after the last
\* member the outer turn ends, `last_offset = offset`
StyleApply ==
    /\ pc = "apply"
    /\ \E o \in cur.overrides :
          /\ current_style' = ApplyOverride(current_style, o, config)
          /\ IF cur.overrides = {o}
             THEN /\ pc' = "style" /\ last_offset' = cur.offset /\ cur' = NoEntry
             ELSE /\ pc' = "apply" /\ last_offset' = last_offset
                  /\ cur' = [cur EXCEPT !.overrides = @ \ {o}]
    /\ UNCHANGED <<str, dat, offset, result, entries, layout_job, prev_job>>
    /\ UNCHANGED NotStyling

\* the loop is over: style_ansi_text returns layout_job
StyleReturn ==
    /\ pc = "style" /\ entries = <<>>
    /\ pc' = "done"
    /\ UNCHANGED <<str, dat, offset, result, entries, cur, last_offset,
                   current_style, layout_job, prev_job>>
    /\ UNCHANGED NotStyling

\* console_ui, the next frame: the same line is styled again
NextFrame ==
    /\ pc = "done"
    /\ prev_job' = layout_job
    /\ Call
    /\ UNCHANGED str
    /\ UNCHANGED NotStyling

Next ==
    \/ ScanTextBlock
    \/ ScanGraphicsMode
    \/ ScanOtherEscape
    \/ ScanEnd
    \/ StyleEntry
    \/ StyleApply
    \/ StyleReturn
    \/ NextFrame

Spec == Init /\ [][Next]_vars

(***************************************************************************)
(* color.rs, the decoder and the palette called on their own: the          *)
(* argument of a call is drawn from the inputs below and the call returns  *)
(* in one step.                                                            *)
(***************************************************************************)
MaxModes == 3

\* parameter bytes that an arm of the match names, and bytes that none names
SampleModes == {0, 1, 2, 3, 4, 9, 30, 31, 37, 40, 41, 47, 5, 29, 38, 48, 255}

\* `modes: &[u8]`: every slice of one byte, and the slices of at most
\* MaxModes of the bytes above
ModeInputs ==
    { <<m>> : m \in 0..U8Max }
        \cup UNION { [1..n -> SampleModes] : n \in 0..MaxModes }

\* style_ansi_text is not running
StyleIdle ==
    /\ str = <<>>
    /\ pc = "idle"
    /\ dat = <<>>
    /\ offset = 0
    /\ result = <<>>
    /\ entries = <<>>
    /\ cur = NoEntry
    /\ last_offset = 0
    /\ current_style = default_style(config)
    /\ layout_job = EmptyJob
    /\ prev_job = NoJob

InitDecode ==
    /\ \/ fn = "parse_graphics_mode" /\ arg \in ModeInputs
       \/ fn = "ansi_color_code_to_color32" /\ arg \in 0..U8Max
    /\ returned = FALSE
    /\ ret = {}
    /\ StyleIdle /\ LineIdle /\ CommandIdle /\ ConsoleIdle

\* parse_graphics_mode(modes)
CallParseGraphicsMode ==
    /\ fn = "parse_graphics_mode" /\ ~returned
    /\ ret' = parse_graphics_mode(arg)
    /\ returned' = TRUE
    /\ UNCHANGED <<fn, arg>>
    /\ UNCHANGED NotDecoding

\* ansi_color_code_to_color32(color_code)
CallAnsiColorCode ==
    /\ fn = "ansi_color_code_to_color32" /\ ~returned
    /\ ret' = ansi_color_code_to_color32(arg)
    /\ returned' = TRUE
    /\ UNCHANGED <<fn, arg>>
    /\ UNCHANGED NotDecoding

NextDecode ==
    \/ CallParseGraphicsMode
    \/ CallAnsiColorCode

SpecDecode == InitDecode /\ [][NextDecode]_vars

(***************************************************************************)
(* style_ansi_text on lines that put one set of overrides, any set of the  *)
(* parameters below without Reset, in front of a byte of text: at the      *)
(* start of the line, after a byte of plain text, or after a byte of text  *)
(* in a style that has every field set.                                    *)
(***************************************************************************)
ApplyParams ==
    << <<"1">>, <<"2">>, <<"3">>, <<"4">>, <<"9">>,     \* bold, dim, italic,
                                                        \* underline, strikethrough
       <<"3", "1">>, <<"3", "2">>,                      \* foreground red, green
       <<"4", "1">> >>                                  \* background red

\* the parameters with an index in I, in the order of ApplyParams
RECURSIVE ParamList(_, _)
ParamList(I, i) ==
    IF i > Len(ApplyParams) THEN <<>>
    ELSE (IF i \in I THEN <<ApplyParams[i]>> ELSE <<>>) \o ParamList(I, i + 1)

\* one escape, or two for more than the five parameters an escape can hold
SgrOf(ps) ==
    IF Len(ps) <= 5 THEN Sgr(ps)
    ELSE Sgr(SubSeq(ps, 1, 5)) \o Sgr(SubSeq(ps, 6, Len(ps)))

Prefixes ==
    { <<>>,
      <<ESC, "[", "2", "J", "a">>,
      Sgr(<< <<"1">>, <<"3">>, <<"9">>, <<"3", "1">>, <<"4", "1">> >>) \o <<"a">> }

ApplyInputs ==
    { pre \o SgrOf(ParamList(I, 1)) \o <<"a">> :
        pre \in Prefixes, I \in (SUBSET (1..Len(ApplyParams))) \ {{}} }

InitApply ==
    /\ str \in ApplyInputs
    /\ pc = "parse"
    /\ dat = str
    /\ offset = 0
    /\ result = <<>>
    /\ entries = <<>>
    /\ cur = NoEntry
    /\ last_offset = 0
    /\ current_style = default_style(config)
    /\ layout_job = EmptyJob
    /\ prev_job = NoJob
    /\ DecodeIdle /\ LineIdle /\ CommandIdle /\ ConsoleIdle

SpecApply == InitApply /\ [][Next]_vars

(***************************************************************************)
(* rustyline.rs: the thread that reads the attached terminal, the channel  *)
(* and the system read_rustyline, which is run once in every update.       *)
(* A line is a sequence of characters, a token of a line as well.          *)
(***************************************************************************)
MaxLines == 3

MaxLineLen == 4

\* Result<String>: Ok(line), Err(ReadlineError::Interrupted), Err(ReadlineError::Eof)
Ok(line) == [res |-> "Ok", line |-> line]

Err(e) == [res |-> e, line |-> <<>>]

ReadlineErrors == {Err("Interrupted"), Err("Eof")}

\* lines that are empty, blank, one token, two tokens, and three tokens
\* with white space around them
SampleLines ==
    { <<>>,
      <<" ", "\t">>,
      <<"l", "o", "g">>,
      <<"l", "o", "g", " ", "h", "i">>,
      <<" ", "l", "o", "g", "\t", " ", "h", "i", " ", "2", " ">> }

SampleMessages == {Ok(l) : l \in SampleLines} \cup ReadlineErrors

LineBytes == {"a", "b", " ", "\t"}

\* every line of at most MaxLineLen characters
ShortLines == UNION { [1..n -> LineBytes] : n \in 0..MaxLineLen }

IsWhitespace(c) == c \in {" ", "\t"}

\* mutant: str.split(' ')
RECURSIVE split_on_space(_, _, _)
split_on_space(s, token, tokens) ==
    IF s = <<>> THEN Append(tokens, token)
    ELSE IF Head(s) = " " THEN split_on_space(Tail(s), <<>>, Append(tokens, token))
    ELSE split_on_space(Tail(s), Append(token, Head(s)), tokens)

\* str.split_whitespace(), collected: `token` is the token the scan is in,
\* `tokens` are the tokens before it
RECURSIVE split_whitespace(_, _, _)
split_whitespace(s, token, tokens) ==
    IF s = <<>> THEN (IF token = <<>> THEN tokens ELSE Append(tokens, token))
    ELSE IF IsWhitespace(Head(s))
         THEN split_whitespace(Tail(s), <<>>,
                               IF token = <<>> THEN tokens ELSE Append(tokens, token))
    ELSE split_whitespace(Tail(s), Append(token, Head(s)), tokens)

str_to_command(s) ==
    LET iter == split_whitespace(s, <<>>, <<>>)
    IN  IF iter = <<>> THEN None
        ELSE Some([command_name |-> Head(iter), args |-> Tail(iter)])

\* mutant: the newest message is taken
try_recv_newest(ch) ==
    IF ch = <<>> THEN [ok |-> FALSE, res |-> Err("Empty"), rest |-> ch]
    ELSE [ok |-> TRUE, res |-> ch[Len(ch)], rest |-> SubSeq(ch, 1, Len(ch) - 1)]

\* Receiver::try_recv: the oldest message, or Err at once when there is none
try_recv(ch) ==
    IF ch = <<>> THEN [ok |-> FALSE, res |-> Err("Empty"), rest |-> ch]
    ELSE [ok |-> TRUE, res |-> Head(ch), rest |-> Tail(ch)]

InitLineReader ==
    /\ reader = "spawned"
    /\ channel = <<>>
    /\ sent = <<>>
    /\ received = <<>>
    /\ evw_consolecommand = <<>>
    /\ evw_interrupt = <<>>
    /\ StyleIdle /\ DecodeIdle /\ CommandIdle /\ ConsoleIdle

\* at most MaxLines lines and errors are read from the terminal
InitQueue ==
    /\ rl \in UNION { [1..n -> SampleMessages] : n \in 0..MaxLines }
    /\ InitLineReader

\* one line, any of ShortLines, or one error is read from the terminal
InitLine ==
    /\ rl \in { <<m>> : m \in {Ok(l) : l \in ShortLines} \cup ReadlineErrors }
    /\ InitLineReader

\* the thread starts: DefaultEditor::new() gives the editor, or fails and the
\* thread returns
ReaderStart ==
    /\ reader = "spawned"
    /\ reader' \in {"readline", "returned"}
    /\ UNCHANGED <<rl, channel, sent, received, evw_consolecommand, evw_interrupt>>
    /\ UNCHANGED NotLineReading

\* one turn of the thread's loop: rl.readline("") returns and tx.send(input)
ReaderSend ==
    /\ reader = "readline" /\ rl # <<>>
    /\ channel' = Append(channel, Head(rl))
    /\ sent' = Append(sent, Head(rl))
    /\ rl' = Tail(rl)
    /\ UNCHANGED <<reader, received, evw_consolecommand, evw_interrupt>>
    /\ UNCHANGED NotLineReading

\* the system read_rustyline, one run
ReadRustyline ==
    /\ reader # "none"
    /\ LET r == try_recv(channel)
       IN  IF r.ok
           THEN /\ channel' = r.rest
                /\ received' = Append(received, r.res)
                /\ CASE r.res.res = "Ok" ->
                          /\ evw_consolecommand' =
                                evw_consolecommand \o str_to_command(r.res.line)
                          /\ UNCHANGED evw_interrupt
                     [] r.res.res = "Interrupted" ->
                          /\ evw_interrupt' = Append(evw_interrupt, "ConsoleInterrupted")
                          /\ UNCHANGED evw_consolecommand
                     [] OTHER -> UNCHANGED <<evw_consolecommand, evw_interrupt>>
           ELSE UNCHANGED <<channel, received, evw_consolecommand, evw_interrupt>>
    /\ UNCHANGED <<rl, reader, sent>>
    /\ UNCHANGED NotLineReading

NextLine ==
    \/ ReaderStart
    \/ ReaderSend
    \/ ReadRustyline

\* read_rustyline is a system of the Update schedule: it is run again and
\* again
SpecQueue == InitQueue /\ [][NextLine]_vars /\ WF_vars(ReadRustyline)

SpecLine == InitLine /\ [][NextLine]_vars

(***************************************************************************)
(* console.rs: a system with a ConsoleCommand<T> parameter.  Every run of  *)
(* the system starts with get_param, which builds the ConsoleCommand from  *)
(* the events its reader has not read; the body of the system calls take.  *)
(* T is the command of the doc comment,                                    *)
(*     #[command(name = "log")] struct LogCommand { msg: String,           *)
(*                                                  num: Option<i64> }     *)
(* and clap's parser is modelled for this T: one or two arguments, the     *)
(* second a number.                                                        *)
(***************************************************************************)
MaxEvents == 2

MaxTakes == 2

\* T::name()
T_name == <<"l", "o", "g">>

SampleNames == {T_name, <<"q">>}

SampleArgs ==
    { <<>>,
      << <<"h", "i">> >>,
      << <<"h", "i">>, <<"2">> >>,
      << <<"h", "i">>, <<"x">> >>,
      << <<"h", "i">>, <<"2">>, <<"x">> >> }

\* ConsoleCommandEntered
SampleEvents == { [command_name |-> n, args |-> a] : n \in SampleNames, a \in SampleArgs }

\* Result<_, clap::Error>
Matched(value) == [ok |-> TRUE, value |-> value, kind |-> "none"]

ClapError(kind) == [ok |-> FALSE, value |-> <<>>, kind |-> kind]

IsI64(token) == token # <<>> /\ \A i \in DOMAIN token : IsDigit(token[i])

\* T::command().no_binary_name(true).try_get_matches_from(command.args.iter())
try_get_matches_from(args) ==
    IF Len(args) = 0 THEN ClapError("MissingRequiredArgument")
    ELSE IF Len(args) = 1 THEN Matched([msg |-> args[1], num |-> None])
    ELSE IF Len(args) = 2
         THEN IF IsI64(args[2]) THEN Matched([msg |-> args[1], num |-> Some(args[2])])
              ELSE ClapError("ValueValidation")
    ELSE ClapError("UnknownArgument")

\* T::from_arg_matches(&matches): the derived conversion of matches that
\* T::command() has validated
from_arg_matches(matches) == Matched(matches)

\* err.to_string()
to_string(err) == <<"error", err.kind>>

\* PrintConsoleLine::new(line)
PrintConsoleLine(line) == [line |-> line]

\* what find_map has found: the command, the lines sent and the events that
\* the reader has still not read
Found(c, lines, rest) == [command |-> c, console_line |-> lines, unread |-> rest]

\* mutant: the error is returned and no line is sent
ParseFailedSilently(err, lines, rest) == Found(Some(err), lines, rest)

\* the arm Err(err): console_line.send(..); return Some(Err(err))
ParseFailed(err, lines, rest) ==
    Found(Some(err), Append(lines, PrintConsoleLine(to_string(err))), rest)

\* event_reader.read().find_map(..): the events are read up to the first
\* whose name is T::name()
RECURSIVE find_map(_, _)
find_map(events, lines) ==
    IF events = <<>> THEN Found(None, lines, <<>>)
    ELSE LET c == Head(events)
         IN  IF T_name = c.command_name
             THEN LET arg_matches == try_get_matches_from(c.args)
                  IN  IF arg_matches.ok
                      THEN Found(Some(from_arg_matches(arg_matches.value)), lines,
                                 Tail(events))
                      ELSE ParseFailed(arg_matches, lines, Tail(events))
             ELSE find_map(Tail(events), lines)

\* mutant: the value is copied and stays in place
mem_clone(c) == [ret |-> c, left |-> c]

\* mem::take(&mut self.command)
mem_take(c) == [ret |-> c, left |-> None]

InitCommand ==
    /\ cpc = "get_param"
    /\ unread \in UNION { [1..n -> SampleEvents] : n \in 0..MaxEvents }
    /\ command = None
    /\ console_line = <<>>
    /\ taken = <<>>
    /\ StyleIdle /\ DecodeIdle /\ LineIdle /\ ConsoleIdle

\* ConsoleCommand::get_param
GetParam ==
    /\ cpc = "get_param"
    /\ LET found == find_map(unread, console_line)
       IN  /\ command' = found.command
           /\ console_line' = found.console_line
           /\ unread' = found.unread
    /\ cpc' = "run"
    /\ taken' = <<>>
    /\ UNCHANGED NotCommanding

\* ConsoleCommand::take, called by the body of the system
Take ==
    /\ cpc = "run" /\ Len(taken) < MaxTakes
    /\ LET r == mem_take(command)
       IN  /\ taken' = Append(taken, r.ret)
           /\ command' = r.left
    /\ UNCHANGED <<cpc, unread, console_line>>
    /\ UNCHANGED NotCommanding

\* the system returns and the ConsoleCommand is dropped; the system is run
\* again in the next update
SystemReturns ==
    /\ cpc = "run"
    /\ cpc' = "get_param"
    /\ command' = None
    /\ taken' = <<>>
    /\ UNCHANGED <<unread, console_line>>
    /\ UNCHANGED NotCommanding

NextCommand ==
    \/ GetParam
    \/ Take
    \/ SystemReturns

SpecCommand == InitCommand /\ [][NextCommand]_vars

(***************************************************************************)
(* The claims.                                                             *)
(***************************************************************************)
Red == ansi_color_code_to_color32(1)

Sections == layout_job.sections

\* the byte ranges of the runs follow one another from 0 to the end of the text
Tiles(job) ==
    /\ \A i \in DOMAIN job.sections :
          /\ job.sections[i].byte_range[1] =
                IF i = 1 THEN 0 ELSE job.sections[i - 1].byte_range[2]
          /\ job.sections[i].byte_range[1] <= job.sections[i].byte_range[2]
    /\ job.sections # <<>> =>
          job.sections[Len(job.sections)].byte_range[2] = Len(job.text)

\* C1: for every input string the call ends with runs whose texts, in the
\* order they were emitted, make up the escape-stripped text, without gap or
\* overlap, and with last_offset at the end of that text.
C1_RunsCoverPlainText ==
    pc \in {"done", "panic"} =>
        /\ pc = "done"
        /\ layout_job.text = str_without_ansi
        /\ Tiles(layout_job)
        /\ last_offset = Len(str_without_ansi)

\* C2: in every state of the scan and in every result the entries are in
\* strictly increasing order of offset.
C2_OffsetsStrictlyIncrease ==
    \A i \in DOMAIN result : \A j \in DOMAIN result :
        i < j => result[i].offset < result[j].offset

\* two escapes at one offset, after an entry at an earlier offset
C2_Witness ==
    /\ Len(result) = 2
    /\ result[2].offset = 1
    /\ {Bold, Foreground(Red)} \subseteq result[2].overrides

\* the step scans a graphics-mode escape
ScansGraphicsMode ==
    /\ pc = "parse" /\ dat # <<>>
    /\ ansi_parse_next(dat).kind = "Escape"
    /\ ansi_parse_next(dat).seq = "SetGraphicsMode"
    /\ dat' # dat

\* C3: a graphics-mode escape scanned at the offset of the last entry adds
\* no entry: the last entry's set becomes its union with the decoded set and
\* the entries before it stay as they are; otherwise exactly one entry
\* (offset, decoded set) is appended.
C3_MergeOrAppend ==
    [][ScansGraphicsMode =>
        LET n == Len(result)
            modes == parse_graphics_mode(ansi_parse_next(dat).mode)
        IN  IF n > 0 /\ result[n].offset = offset
            THEN /\ Len(result') = n
                 /\ result'[n].offset = offset
                 /\ result'[n].overrides = result[n].overrides \cup modes
                 /\ \A i \in 1..(n - 1) : result'[i] = result[i]
            ELSE /\ Len(result') = n + 1
                 /\ result'[n + 1] = [offset |-> offset, overrides |-> modes]
                 /\ \A i \in 1..n : result'[i] = result[i]]_vars

\* bold, then red at the same offset, folded into the one entry
C3_Witness ==
    /\ pc = "parse"
    /\ Len(result) = 1
    /\ result[1] = [offset |-> 0, overrides |-> {Bold, Foreground(Red)}]

\* everything ansi_parse() hands out for a string, in order
RECURSIVE ElementsOf(_)
ElementsOf(d) ==
    IF d = <<>> THEN <<>>
    ELSE LET element == ansi_parse_next(d)
         IN  <<element>> \o ElementsOf(element.rest)

\* the bytes of the text blocks among the first n elements
RECURSIVE TextLen(_, _)
TextLen(elts, n) ==
    IF n = 0 THEN 0
    ELSE TextLen(elts, n - 1) + IF elts[n].kind = "TextBlock" THEN Len(elts[n].t) ELSE 0

GraphicsModes(elts) ==
    {i \in DOMAIN elts : elts[i].kind = "Escape" /\ elts[i].seq = "SetGraphicsMode"}

\* parse_ansi_styled_str has just returned `result`
ParserReturned == pc = "style" /\ Len(entries) = Len(result) + 1

\* C4: the offset of each entry of the result returned is the number of bytes
\* of the text blocks before the graphics-mode escapes that made the entry,
\* and each such escape has its entry there; no escape adds to an offset.
C4_OffsetIsTextBefore ==
    ParserReturned =>
        LET elts == ElementsOf(str)
            G == GraphicsModes(elts)
        IN  /\ {result[k].offset : k \in DOMAIN result} = {TextLen(elts, i - 1) : i \in G}
            /\ \A k \in DOMAIN result :
                  result[k].overrides =
                      UNION {parse_graphics_mode(elts[i].mode) :
                                i \in {j \in G : TextLen(elts, j - 1) = result[k].offset}}

\* a style opened before an erase-display escape and a byte of text, and
\* closed after them: entries at 0 and 1
C4_Witness ==
    /\ ParserReturned
    /\ Len(result) = 2
    /\ result[1] = [offset |-> 0, overrides |-> {Bold}]
    /\ result[2] = [offset |-> 1, overrides |-> {Reset}]
    /\ \E i \in DOMAIN ElementsOf(str) : ElementsOf(str)[i].seq = "EraseDisplay"

BaseStyle == default_style(config)

\* C5: the run for the text that follows an entry whose set is exactly
\* {Reset} has the base style in every field, whatever the entries before.
C5_ResetRestoresBase ==
    \A i \in DOMAIN Sections : \A k \in DOMAIN result :
        (result[k].overrides = {Reset} /\ result[k].offset = Sections[i].byte_range[1])
            => Sections[i].format = BaseStyle

\* a run that is not in the base style, a reset, and the run after it
C5_Witness ==
    /\ pc = "done"
    /\ Len(Sections) = 2
    /\ Sections[1].format # BaseStyle
    /\ \E k \in DOMAIN result :
          /\ k > 1
          /\ result[k].overrides = {Reset}
          /\ result[k].offset = Sections[2].byte_range[1]

HasTag(O, t) == \E o \in O : o.tag = t

OnlyOfTag(O, o) == \A o2 \in O : o2.tag = o.tag => o2 = o

\* format f shows every override of the set O that no other override of O
\* writes over
Reflects(f, O) ==
    /\ Italic \in O => f.italics = TRUE
    /\ Underline \in O => f.underline = Stroke(1, config.foreground_color)
    /\ Strikethrough \in O => f.strikethrough = Stroke(1, config.foreground_color)
    /\ (Bold \in O /\ Dim \notin O) => f.size = 16
    /\ (Dim \in O /\ Bold \notin O) => f.size = 12
    /\ \A o \in O :
          /\ (o.tag = "Foreground" /\ OnlyOfTag(O, o)) => f.color = Color32(o.c)
          /\ (o.tag = "Background" /\ OnlyOfTag(O, o)) => f.background = Color32(o.c)

\* C6: the run for [last_offset, offset) is appended with the style of before
\* the overrides of the entry at `offset`, and no override changes a run that
\* was appended; the run that starts at an entry's offset shows the entry's
\* overrides.
C6_OverridesApplyFromOffset ==
    /\ [](\A i \in DOMAIN Sections : \A k \in DOMAIN result :
             result[k].offset = Sections[i].byte_range[1]
                 => Reflects(Sections[i].format, result[k].overrides))
    /\ [][/\ (pc = "style" /\ entries # <<>> /\ pc' # "panic") =>
                LET e == Head(entries)
                IN  IF last_offset < e.offset
                    THEN Sections' =
                            Append(Sections, [byte_range |-> <<last_offset, e.offset>>,
                                              format |-> current_style])
                    ELSE Sections' = Sections
          /\ ~(pc = "style" /\ entries # <<>>) =>
                (Sections' = Sections \/ Sections' = <<>>)]_vars

\* text in bold and underlined, appended as such at the entry that resets
C6_Witness ==
    /\ pc = "style"
    /\ Len(result) = 2 /\ Len(entries) = 1
    /\ Reset \in result[2].overrides
    /\ Len(Sections) = 1
    /\ Sections[1].byte_range = <<0, result[2].offset>>
    /\ Sections[1].format.size = 16
    /\ Sections[1].format.underline # StrokeNone
    /\ current_style = BaseStyle

\* no entry after the k-th and up to offset p has a set that Kills holds of
NoLater(k, p, Kills(_)) ==
    \A j \in DOMAIN result :
        (j > k /\ result[j].offset <= p) => ~Kills(result[j].overrides)

\* C7: a field that an override has set keeps its value in every later run,
\* until an entry with Reset or an entry that writes the same field.
C7_StylePersists ==
    \A i \in DOMAIN Sections : \A k \in DOMAIN result :
        LET f == Sections[i].format
            p == Sections[i].byte_range[1]
            O == result[k].overrides
        IN  result[k].offset <= p =>
            /\ (Italic \in O /\ NoLater(k, p, LAMBDA X : Reset \in X))
                  => f.italics = TRUE
            /\ (Underline \in O /\ NoLater(k, p, LAMBDA X : Reset \in X))
                  => f.underline = Stroke(1, config.foreground_color)
            /\ (Strikethrough \in O /\ NoLater(k, p, LAMBDA X : Reset \in X))
                  => f.strikethrough = Stroke(1, config.foreground_color)
            /\ (Bold \in O /\ Dim \notin O
                   /\ NoLater(k, p, LAMBDA X : Reset \in X \/ Bold \in X \/ Dim \in X))
                  => f.size = 16
            /\ (Dim \in O /\ Bold \notin O
                   /\ NoLater(k, p, LAMBDA X : Reset \in X \/ Bold \in X \/ Dim \in X))
                  => f.size = 12
            /\ \A o \in O :
                  /\ (o.tag = "Foreground" /\ OnlyOfTag(O, o)
                         /\ NoLater(k, p, LAMBDA X : Reset \in X \/ HasTag(X, "Foreground")))
                        => f.color = Color32(o.c)
                  /\ (o.tag = "Background" /\ OnlyOfTag(O, o)
                         /\ NoLater(k, p, LAMBDA X : Reset \in X \/ HasTag(X, "Background")))
                        => f.background = Color32(o.c)

\* bold at offset 0, red at offset 1, no reset: the run from 1 is bold and red
C7_Witness ==
    /\ pc = "done"
    /\ result = <<[offset |-> 0, overrides |-> {Bold}],
                  [offset |-> 1, overrides |-> {Foreground(Red)}]>>
    /\ Len(Sections) = 2
    /\ Sections[2].byte_range[1] = 1
    /\ Sections[2].format.size = 16
    /\ Sections[2].format.color = Color32(Red)

\* C8: the call meets no fault: at every turn of the loop
\* last_offset <= offset <= len(str_without_ansi), so the slice is in range.
C8_SliceAlwaysInRange ==
    /\ pc # "panic"
    /\ (pc = "style" /\ entries # <<>>) =>
          /\ last_offset <= Head(entries).offset
          /\ Head(entries).offset <= Len(str_without_ansi)

\* C9: two calls with the same string and configuration return the same
\* runs, texts and styles.
C9_SameRunsEveryFrame ==
    (pc = "done" /\ prev_job # NoJob) => layout_job = prev_job

\* C10 as stated: with no entry in the result the call returns exactly one
\* run, which holds all of the plain text in the base style, also when the
\* plain text is empty.
C10_OneRunForAnyText ==
    (pc = "done" /\ result = <<>>) =>
        /\ Len(Sections) = 1
        /\ Sections[1].byte_range = <<0, Len(str_without_ansi)>>
        /\ Sections[1].format = BaseStyle
        /\ layout_job.text = str_without_ansi

\* C10 as amended: with no entry in the result and a plain text that is not
\* empty the call returns exactly one run, which holds all of the plain text
\* in the base style; with an empty plain text it returns no run.
C10_OneRunForNonEmptyText ==
    (pc = "done" /\ result = <<>>) =>
        /\ layout_job.text = str_without_ansi
        /\ IF str_without_ansi = <<>>
           THEN Sections = <<>>
           ELSE /\ Len(Sections) = 1
                /\ Sections[1].byte_range = <<0, Len(str_without_ansi)>>
                /\ Sections[1].format = BaseStyle

\* three bytes of text and an escape that sets no graphics mode
C10_Witness ==
    /\ pc = "done"
    /\ result = <<>>
    /\ str_without_ansi = <<"a", "a", "a">>
    /\ Len(str) > 3
    /\ Len(Sections) = 1

\* the 16-colour palette: the colours of the indices 1 to 15
Palette16 ==
    << <<222, 56, 43>>, <<57, 181, 74>>, <<255, 199, 6>>, <<0, 111, 184>>,
       <<118, 38, 113>>, <<44, 181, 233>>, <<204, 204, 204>>, <<128, 128, 128>>,
       <<255, 0, 0>>, <<0, 255, 0>>, <<255, 255, 0>>, <<0, 0, 255>>,
       <<255, 0, 255>>, <<0, 255, 255>>, <<255, 255, 255>> >>

\* the colour of an index: black, (1,1,1), for 0 and for every index past 15
PaletteAt(i) == IF i \in 1..15 THEN Palette16[i] ELSE <<1, 1, 1>>

\* no arm of the match names the parameter
Unrecognised(p) == p \notin ({0, 1, 2, 3, 4, 9} \cup (30..37) \cup (40..47))

IsColour(c) == c \in (0..U8Max) \X (0..U8Max) \X (0..U8Max)

IsOverride(o) ==
    \/ o \in {Reset, Bold, Dim, Italic, Underline, Strikethrough}
    \/ /\ DOMAIN o = {"tag", "c"}
       /\ o.tag \in {"Foreground", "Background"}
       /\ IsColour(o.c)

ParseGraphicsModeReturned == fn = "parse_graphics_mode" /\ returned

\* C11: a call of parse_graphics_mode returns for every slice of parameter
\* bytes; a parameter that is none of 0, 1, 2, 3, 4, 9, 30..37, 40..47 puts
\* Reset into the returned set, so the set of a slice that is not empty is
\* never empty, and every member of the set is an override.
C11_UnknownModeIsReset ==
    /\ (fn = "parse_graphics_mode" /\ ~returned) => ENABLED CallParseGraphicsMode
    /\ ParseGraphicsModeReturned =>
          /\ \A i \in DOMAIN arg : Unrecognised(arg[i]) => Reset \in ret
          /\ arg # <<>> => ret # {}
          /\ \A o \in ret : IsOverride(o)

\* bold and a parameter that no arm names
C11_Witness ==
    /\ ParseGraphicsModeReturned
    /\ arg = <<1, 255>>
    /\ ret = {Bold, Reset}

\* the override of one parameter byte
ModeMap(p) ==
    CASE p = 0 -> Reset
      [] p = 1 -> Bold
      [] p = 2 -> Dim
      [] p = 3 -> Italic
      [] p = 4 -> Underline
      [] p = 9 -> Strikethrough
      [] p \in 30..37 -> [tag |-> "Foreground", c |-> PaletteAt(p - 30)]
      [] p \in 40..47 -> [tag |-> "Background", c |-> PaletteAt(p - 40)]
      [] OTHER -> Reset

\* C12: parse_graphics_mode returns exactly the set of the overrides of its
\* parameters, which depends neither on their order nor on how often one
\* occurs.
C12_DecodesToSetOfModes ==
    ParseGraphicsModeReturned => ret = {ModeMap(arg[i]) : i \in DOMAIN arg}

\* red, bold and red again: two overrides
C12_Witness ==
    /\ ParseGraphicsModeReturned
    /\ arg = <<31, 1, 31>>
    /\ ret = {Bold, [tag |-> "Foreground", c |-> <<222, 56, 43>>]}

AnsiColorCodeReturned == fn = "ansi_color_code_to_color32" /\ returned

\* C13: ansi_color_code_to_color32 returns for every byte: the colour of the
\* palette for an index in 0..15, index 1 being (222,56,43), and (1,1,1) for
\* every index past 15.
C13_PaletteIsTotal ==
    /\ (fn = "ansi_color_code_to_color32" /\ ~returned) => ENABLED CallAnsiColorCode
    /\ AnsiColorCodeReturned =>
          /\ IsColour(ret)
          /\ ret = PaletteAt(arg)
          /\ arg = 1 => ret = <<222, 56, 43>>
          /\ arg > 15 => ret = <<1, 1, 1>>

\* an index past 15
C13_Witness ==
    /\ AnsiColorCodeReturned
    /\ arg = 200
    /\ ret = <<1, 1, 1>>

\* the step scans a text block
ScansTextBlock ==
    /\ pc = "parse" /\ dat # <<>>
    /\ ansi_parse_next(dat).kind = "TextBlock"
    /\ dat' # dat

\* the step scans an escape that sets no graphics mode
ScansOtherEscape ==
    /\ pc = "parse" /\ dat # <<>>
    /\ ansi_parse_next(dat).kind = "Escape"
    /\ ansi_parse_next(dat).seq # "SetGraphicsMode"
    /\ dat' # dat

\* C14: scanning a text block of length L adds L to the offset and changes
\* nothing else; scanning an escape that sets no graphics mode changes neither
\* the offset nor the result; so the result returned for an input without a
\* graphics-mode escape, the empty input among them, is empty.
C14_ScanFrameEffects ==
    /\ [][/\ ScansTextBlock =>
                /\ offset' = offset + Len(ansi_parse_next(dat).t)
                /\ result' = result
                /\ StyleVars' = StyleVars
          /\ ScansOtherEscape =>
                /\ offset' = offset
                /\ result' = result
                /\ StyleVars' = StyleVars]_vars
    /\ []((ParserReturned /\ GraphicsModes(ElementsOf(str)) = {}) => result = <<>>)

\* two bytes of text around an erase-display escape: offset 2, no entry
C14_Witness ==
    /\ ParserReturned
    /\ result = <<>>
    /\ offset = 2
    /\ str = <<"a", ESC, "[", "2", "J", "a">>

\* C16: no run has an empty text: the entries at offset 0, at the end of the
\* text and the terminal entry add no run for an empty slice, and the call on
\* the empty string returns no run.
C16_NoEmptyRun ==
    /\ \A i \in DOMAIN Sections :
          Sections[i].byte_range[1] < Sections[i].byte_range[2]
    /\ (pc = "done" /\ str = <<>>) => (Sections = <<>> /\ layout_job.text = <<>>)

\* an entry at offset 0 and an entry at the end of the text: one run
C16_Witness ==
    /\ pc = "done"
    /\ Len(result) = 2
    /\ result[1].offset = 0
    /\ result[2].offset = Len(str_without_ansi)
    /\ Len(Sections) = 1
    /\ layout_job.text = str_without_ansi

\* the number of entries of the result whose turn of the loop is over
TurnsOver == Len(result) + 1 - Len(entries)

\* the turn of an entry of the result without Reset has just ended
TurnJustOver ==
    /\ pc = "style"
    /\ TurnsOver \in DOMAIN result
    /\ Reset \notin result[TurnsOver].overrides

\* the style the inner loop of that turn started from: the style of the run
\* the turn appended, the base style for the entry at offset 0
TurnStartStyle ==
    IF result[TurnsOver].offset = 0 THEN BaseStyle
    ELSE Sections[Len(Sections)].format

\* at most one of Bold and Dim, one Foreground and one Background
NoConflict(O) ==
    /\ ~(Bold \in O /\ Dim \in O)
    /\ \A o \in O : o.tag \in {"Foreground", "Background"} => OnlyOfTag(O, o)

\* C15: whatever the order in which the overrides of an entry without Reset
\* are applied, the flags after the turn are those of before with the flags of
\* the set switched on (a flag that is set stays set), and for a set without
\* two overrides of one field the whole style is the one that the set fixes.
C15_ApplyOrderIrrelevant ==
    TurnJustOver =>
        LET O == result[TurnsOver].overrides
            s0 == TurnStartStyle
            line == Stroke(1, config.foreground_color)
        IN  /\ current_style.italics = (s0.italics \/ Italic \in O)
            /\ current_style.underline = IF Underline \in O THEN line ELSE s0.underline
            /\ current_style.strikethrough =
                  IF Strikethrough \in O THEN line ELSE s0.strikethrough
            /\ NoConflict(O) =>
                  /\ current_style.size =
                        IF Bold \in O THEN 16 ELSE IF Dim \in O THEN 12 ELSE s0.size
                  /\ \A o \in O :
                        /\ o.tag = "Foreground" => current_style.color = Color32(o.c)
                        /\ o.tag = "Background" => current_style.background = Color32(o.c)
                  /\ ~HasTag(O, "Foreground") => current_style.color = s0.color
                  /\ ~HasTag(O, "Background") => current_style.background = s0.background

\* bold, dim, italic and underline applied to a style that is italic and
\* struck through: the turn is over, with either size
C15_Witness ==
    /\ TurnJustOver
    /\ result[TurnsOver].overrides = {Bold, Dim, Italic, Underline}
    /\ TurnStartStyle.italics = TRUE
    /\ TurnStartStyle.strikethrough # StrokeNone
    /\ current_style.size = 12
    /\ current_style.underline # StrokeNone

\* C17: the thread and the host hand messages over through the channel
\* only: a run of read_rustyline takes at most one message, the oldest, and
\* none when the channel is empty, when it changes nothing; the messages
\* taken and the messages waiting are the messages sent, in their order, none
\* lost and none twice; and as read_rustyline is run again and again every
\* message sent is taken in the end.
C17_QueueHandoff ==
    /\ [](received \o channel = sent)
    /\ [][/\ Len(received') <= Len(received) + 1
          /\ received' # received =>
                /\ channel # <<>>
                /\ received' = Append(received, Head(channel))
                /\ channel' = Tail(channel)
                /\ UNCHANGED <<rl, reader, sent>>
          /\ (channel = <<>> /\ sent' = sent /\ reader' = reader) =>
                UNCHANGED lineReading
          /\ sent' # sent =>
                /\ channel' = Append(channel, sent'[Len(sent')])
                /\ UNCHANGED <<received, evw_consolecommand, evw_interrupt>>
          /\ (evw_consolecommand' # evw_consolecommand \/ evw_interrupt' # evw_interrupt)
                => received' # received]_vars
    /\ \A n \in 1..MaxLines : (Len(sent) >= n) ~> (Len(received) >= n)

\* three messages sent, two of them taken, the third waiting
C17_Witness ==
    /\ Len(sent) = 3
    /\ Len(received) = 2
    /\ received[1] # received[2]
    /\ channel = <<sent[3]>>

\* the places of a line where a token starts
TokenStarts(line) ==
    {i \in DOMAIN line :
        ~IsWhitespace(line[i]) /\ (i = 1 \/ IsWhitespace(line[i - 1]))}

\* the k-th token of a line: from the k-th start to the last character before
\* the next white space
Token(line, k) ==
    LET from == CHOOSE i \in TokenStarts(line) :
                    Cardinality({j \in TokenStarts(line) : j <= i}) = k
        to == CHOOSE j \in from..Len(line) :
                  /\ \A n \in from..j : ~IsWhitespace(line[n])
                  /\ (j = Len(line) \/ IsWhitespace(line[j + 1]))
    IN  SubSeq(line, from, to)

Named == {i \in DOMAIN unread : unread[i].command_name = T_name}

FirstNamed == CHOOSE i \in Named : \A j \in Named : i <= j

C20_TakeAtMostOnce ==
    /\ [][(cpc = "run" /\ cpc' = "run" /\ taken' # taken) =>
            /\ taken' = Append(taken, command)
            /\ command' = None]_vars
    /\ [](taken # <<>> => command = None)
    /\ [](\A i \in DOMAIN taken : i > 1 => taken[i] = None)

\* two calls of take on a ConsoleCommand that held a parsed command
C20_Witness ==
    /\ Len(taken) = 2
    /\ taken[1] # None
    /\ taken[1][1].ok
    /\ taken[2] = None

\* the turn of an entry of the result with Reset has just ended
ResetTurnJustOver ==
    /\ pc = "style"
    /\ TurnsOver \in DOMAIN result
    /\ Reset \in result[TurnsOver].overrides

\* the style that the base style and the overrides of O fix, for a set O
\* without two overrides of one field
FromBase(O) ==
    [size |-> IF Bold \in O THEN 16 ELSE IF Dim \in O THEN 12 ELSE BaseStyle.size,
     italics |-> Italic \in O,
     underline |-> IF Underline \in O THEN Stroke(1, config.foreground_color)
                   ELSE BaseStyle.underline,
     strikethrough |-> IF Strikethrough \in O THEN Stroke(1, config.foreground_color)
                       ELSE BaseStyle.strikethrough,
     color |-> IF HasTag(O, "Foreground")
               THEN Color32((CHOOSE o \in O : o.tag = "Foreground").c)
               ELSE BaseStyle.color,
     background |-> IF HasTag(O, "Background")
                    THEN Color32((CHOOSE o \in O : o.tag = "Background").c)
                    ELSE BaseStyle.background]

\* C23: within one entry Reset is applied before every other override of the
\* entry, whatever the order the set hands them out in: after the turn of an
\* entry with Reset the style is the base style with the other overrides of
\* the entry applied, and the run that starts at the entry's offset has that
\* style; for {Reset, Foreground(c)} it is the base style with the colour c,
\* nothing set before the entry being left.
C23_ResetFirstWithinEntry ==
    /\ ResetTurnJustOver =>
          LET O == result[TurnsOver].overrides
          IN  /\ NoConflict(O) => current_style = FromBase(O)
              /\ O = {Reset, Foreground(Red)}
                    => current_style = [BaseStyle EXCEPT !.color = Color32(Red)]
    /\ \A i \in DOMAIN Sections : \A k \in DOMAIN result :
          (/\ Reset \in result[k].overrides
           /\ NoConflict(result[k].overrides)
           /\ result[k].offset = Sections[i].byte_range[1])
              => Sections[i].format = FromBase(result[k].overrides)

\* a bold run, then reset and red folded into one entry at the end of the run
C23_Witness ==
    /\ ResetTurnJustOver
    /\ result[TurnsOver] = [offset |-> 1, overrides |-> {Reset, Foreground(Red)}]
    /\ Len(Sections) = 1
    /\ Sections[1].format.size = 16
    /\ current_style = [BaseStyle EXCEPT !.color = Color32(Red)]

(***************************************************************************)
(* console.rs: the console window, console_ui and receive_console_line.    *)
(***************************************************************************)
MaxHistorySize == 1

MaxScrollback == 3

MaxKeyEvents == 2

\* usize::MAX, the largest history_size there is; only `+ 1` is done with it,
\* and the largest integer of the model checker stands for it
UsizeMax == 2147483647

HistorySizes == (0..MaxHistorySize) \cup {UsizeMax}

\* a configuration as the application sets it up: history_size is any usize,
\* and add_console_command::<LogCommand, _> has put the name into commands
Configurations ==
    {[DefaultConfiguration EXCEPT !.history_size = n, !.commands = {T_name}] :
        n \in HistorySizes}

\* the key sets of the configurations the toggle is looked at with
KeySets == {<<"Backquote">>, <<"F1", "Backquote">>}

\* what the user can have in the input line: nothing, a space, a command that
\* is registered with a quoted argument, and one that is not registered
Buffers ==
    { <<>>,
      <<" ">>,
      <<"l", "o", "g", " ", "\"", "h", " ", "i", "\"">>,
      <<"x">> }

\* bevy's KeyboardInput, the fields read
KeyboardInput(key_code, st) == [key_code |-> key_code, state |-> st]

\* the egui side of a frame of console_ui: the context is there, no key event,
\* the text edit has the focus console_ui asked for in the frame before
Quiet ==
    [system |-> "console_ui", ctx |-> TRUE, keyboard_input_events |-> <<>>,
     ctrl |-> FALSE, wants_keyboard_input |-> FALSE, text |-> None,
     lost_focus |-> FALSE, has_focus |-> TRUE, key_pressed |-> {}]

\* the frames of a user at the input line: typing, Enter (the text edit gives
\* up the focus), Enter with Ctrl+L, the arrows, Ctrl+L, L alone, the toggle
EditFrames ==
    {[Quiet EXCEPT !.text = Some(b)] : b \in Buffers}
    \cup {[Quiet EXCEPT !.lost_focus = TRUE, !.has_focus = FALSE,
                        !.key_pressed = {"Enter"}, !.ctrl = l,
                        !.keyboard_input_events =
                            IF l THEN <<KeyboardInput("KeyL", "Pressed")>> ELSE <<>>] :
             l \in BOOLEAN}
    \cup {[Quiet EXCEPT !.key_pressed = K] :
             K \in {{"ArrowUp"}, {"ArrowDown"}, {"ArrowUp", "ArrowDown"}}}
    \cup {[Quiet EXCEPT !.keyboard_input_events = <<KeyboardInput("KeyL", "Pressed")>>,
                        !.ctrl = l] : l \in BOOLEAN}
    \cup {[Quiet EXCEPT !.keyboard_input_events =
                            <<KeyboardInput("Backquote", "Pressed")>>]}

KeyEvents ==
    {KeyboardInput(k, st) : k \in {"Backquote", "KeyA"}, st \in {"Pressed", "Released"}}

\* the frames the toggle is looked at with: with and without an egui
\* context, another widget wanting the keyboard or not, any key events
ToggleFrames ==
    {[Quiet EXCEPT !.ctx = c, !.wants_keyboard_input = w, !.keyboard_input_events = evs] :
        c \in BOOLEAN, w \in BOOLEAN,
        evs \in UNION {[1..n -> KeyEvents] : n \in 0..MaxKeyEvents}}

\* str::trim().is_empty()
trim_is_empty(s) == \A i \in DOMAIN s : IsWhitespace(s[i])

\* VecDeque::insert(index, value), the index counted from 0
insert(q, index, value) == SubSeq(q, 1, index) \o <<value>> \o SubSeq(q, index + 1, Len(q))

\* mutant: the front of the list is dropped
pop_front(q) == Tail(q)

\* VecDeque::pop_back()
pop_back(q) == SubSeq(q, 1, Len(q) - 1)

\* `config.history_size + 1` in usize: at usize::MAX a build with overflow
\* checks panics (None) and a build without them wraps to 0
history_size_plus_1(history_size, overflow_checks) ==
    IF history_size < UsizeMax THEN Some(history_size + 1)
    ELSE IF overflow_checks THEN None ELSE Some(0)

\* shlex: one word from the first byte of s on. A double quote opens and
\* closes a stretch that keeps its blanks; the end of the line inside one is
\* an error
RECURSIVE parse_word(_, _, _)
parse_word(s, word, quoted) ==
    IF s = <<>>
    THEN IF quoted THEN [ok |-> FALSE] ELSE [ok |-> TRUE, word |-> word, rest |-> <<>>]
    ELSE IF Head(s) = "\"" THEN parse_word(Tail(s), word, ~quoted)
    ELSE IF IsWhitespace(Head(s)) /\ ~quoted
         THEN [ok |-> TRUE, word |-> word, rest |-> Tail(s)]
    ELSE parse_word(Tail(s), Append(word, Head(s)), quoted)

\* Shlex::new(s).collect::<Vec<_>>(): the words of s; the iterator ends at
\* the end of the line and at the first error
RECURSIVE Shlex(_, _)
Shlex(s, args) ==
    IF s = <<>> THEN args
    ELSE IF IsWhitespace(Head(s)) THEN Shlex(Tail(s), args)
    ELSE LET w == parse_word(s, <<>>, FALSE)
         IN  IF w.ok THEN Shlex(w.rest, Append(args, w.word)) ELSE args

ConsoleCommandEntered(command_name, args) ==
    [command_name |-> command_name, args |-> args]

console_key_pressed(keyboard_input, configured_keys) ==
    /\ keyboard_input.state = "Pressed"
    /\ \E i \in DOMAIN configured_keys : configured_keys[i] = keyboard_input.key_code

\* mutant: the flag flips once for every press
toggle_each_press(open, in, cfg) ==
    LET n == Cardinality({i \in DOMAIN in.keyboard_input_events :
                             console_key_pressed(in.keyboard_input_events[i], cfg.keys)})
    IN  IF open \/ ~in.wants_keyboard_input THEN (open = (n % 2 = 0)) ELSE open

\* `pressed` and the flip of console_open.open
toggle(open, in, cfg) ==
    LET pressed == \E i \in DOMAIN in.keyboard_input_events :
                       console_key_pressed(in.keyboard_input_events[i], cfg.keys)
    IN  IF pressed /\ (open \/ ~in.wants_keyboard_input) THEN ~open ELSE open

\* what a run of console_ui has made of the state so far, the events it has
\* sent and where it is: "run", or the panic "overflow" or "index"
Run(st, events, at) == [state |-> st, sent |-> events, pc |-> at]

\* TextEdit::singleline(&mut state.buf): the widget writes what was typed
text_edit(c, in) ==
    IF in.text = None THEN c
    ELSE Run([c.state EXCEPT !.buf = in.text[1]], c.sent, c.pc)

\* mutant: the front of the list is evicted
evict_front(history, bound) ==
    IF Len(history) > bound THEN pop_front(history) ELSE history

\* `if state.history.len() > config.history_size + 1 { state.history.pop_back(); }`
evict(history, bound) ==
    IF Len(history) > bound THEN pop_back(history) ELSE history

\* `Shlex::new(&state.buf).collect::<Vec<_>>()`
words_of(buf) == Shlex(buf, <<>>)

\* the end of the Enter branch: the command is looked up and sent or
\* refused, and the buffer is cleared
dispatch(st, events, cfg, args) ==
    IF args = <<>> THEN Run([st EXCEPT !.buf = <<>>], events, "run")
    ELSE LET command_name == Head(args)
         IN  IF command_name \in cfg.commands
             THEN Run([st EXCEPT !.buf = <<>>],
                      Append(events, ConsoleCommandEntered(command_name, Tail(args))),
                      "run")
             ELSE Run([st EXCEPT !.buf = <<>>,
                                 !.scrollback = Append(@, <<"e", "r", "r", "o", "r", ":", " ",
                                                           "I", "n", "v", "a", "l", "i", "d", " ",
                                                           "c", "o", "m", "m", "a", "n", "d">>)],
                      events, "run")

\* `// Handle enter`, the body of the if
handle_enter(c, cfg, overflow_checks) ==
    LET st == c.state
    IN  IF trim_is_empty(st.buf)
        THEN Run([st EXCEPT !.scrollback = Append(@, <<>>)], c.sent, c.pc)
        ELSE LET msg == cfg.symbol \o st.buf
                 echoed == [st EXCEPT !.scrollback = Append(@, msg)]
             IN  IF Len(st.history) < 1
                 THEN Run(echoed, c.sent, "index")
                 ELSE LET inserted == [echoed EXCEPT !.history = insert(@, 1, st.buf)]
                          bound == history_size_plus_1(cfg.history_size, overflow_checks)
                      IN  IF bound = None
                          THEN Run(inserted, c.sent, "overflow")
                          ELSE dispatch([inserted EXCEPT !.history = evict(@, bound[1])],
                                        c.sent, cfg, words_of(st.buf))

\* `// Clear on ctrl+l`
clear_on_ctrl_l(c, in) ==
    IF /\ c.pc = "run"
       /\ \E i \in DOMAIN in.keyboard_input_events :
             /\ in.keyboard_input_events[i].state = "Pressed"
             /\ in.keyboard_input_events[i].key_code = "KeyL"
       /\ in.ctrl
    THEN Run([c.state EXCEPT !.scrollback = <<>>], c.sent, c.pc)
    ELSE c

\* `state.history_index == 0 && !state.buf.trim().is_empty()`
keeps_draft(st) == st.history_index = 0 /\ ~trim_is_empty(st.buf)

\* mutant: the index may go up to history.len()
can_go_up_to_len(st) == st.history_index < Len(st.history)

\* `state.history.len() > 1 && state.history_index < state.history.len() - 1`
can_go_up(st) == Len(st.history) > 1 /\ st.history_index < Len(st.history) - 1

\* `state.buf = state.history.get(state.history_index).unwrap().clone()`,
\* the index counted from 0
recall(st, events) ==
    IF st.history_index + 1 \in DOMAIN st.history
    THEN Run([st EXCEPT !.buf = st.history[st.history_index + 1]], events, "run")
    ELSE Run(st, events, "index")

\* `// Handle up and down through history`
handle_history(c, in) ==
    LET st == c.state
    IN  IF c.pc # "run" THEN c
        ELSE IF in.has_focus /\ "ArrowUp" \in in.key_pressed /\ can_go_up(st)
        THEN IF keeps_draft(st) /\ st.history = <<>>
             THEN Run(st, c.sent, "index")
             ELSE LET kept == IF keeps_draft(st)
                              THEN [st EXCEPT !.history[1] = st.buf] ELSE st
                  IN  recall([kept EXCEPT !.history_index = @ + 1], c.sent)
        ELSE IF in.has_focus /\ "ArrowDown" \in in.key_pressed /\ st.history_index > 0
        THEN recall([st EXCEPT !.history_index = @ - 1], c.sent)
        ELSE c

\* the body of `if console_open.open`: the window is drawn, every line of the
\* scrollback styled by style_ansi_text, and the input line handled
window(c, in, cfg, overflow_checks) ==
    LET edited == text_edit(c, in)
        entered == IF in.lost_focus /\ "Enter" \in in.key_pressed
                   THEN handle_enter(edited, cfg, overflow_checks)
                   ELSE edited
    IN  handle_history(clear_on_ctrl_l(entered, in), in)

InitConsole ==
    /\ ui_pc = "run"
    /\ console_config \in Configurations
    /\ console_open = FALSE
    /\ state = DefaultState
    /\ command_entered = <<>>
    /\ frame = NoFrame
    /\ StyleIdle /\ DecodeIdle /\ LineIdle /\ CommandIdle

InitToggle ==
    /\ ui_pc = "run"
    /\ console_config \in {[DefaultConfiguration EXCEPT !.keys = ks] : ks \in KeySets}
    /\ console_open = FALSE
    /\ state = DefaultState
    /\ command_entered = <<>>
    /\ frame = NoFrame
    /\ StyleIdle /\ DecodeIdle /\ LineIdle /\ CommandIdle

\* one run of console_ui on the frame `in`; Enter waits for room for its two
\* lines in the scrollback
ConsoleUi(in, overflow_checks) ==
    /\ ui_pc = "run"
    /\ (in.lost_focus /\ "Enter" \in in.key_pressed)
          => Len(state.scrollback) + 2 <= MaxScrollback
    /\ frame' = in
    /\ IF ~in.ctx
       THEN /\ command_entered' = <<>>
            /\ UNCHANGED <<ui_pc, console_open, state>>
       ELSE LET open == toggle(console_open, in, console_config)
                c == IF open
                     THEN window(Run(state, <<>>, "run"), in, console_config,
                                 overflow_checks)
                     ELSE Run(state, <<>>, "run")
            IN  /\ console_open' = open
                /\ state' = c.state
                /\ command_entered' = c.sent
                /\ ui_pc' = c.pc
    /\ UNCHANGED console_config
    /\ UNCHANGED NotConsoleUi

\* the user at the input line
ConsoleUiEdit == \E in \in EditFrames, overflow_checks \in BOOLEAN : ConsoleUi(in, overflow_checks)

\* the toggle key
ConsoleUiKeys == \E in \in ToggleFrames, overflow_checks \in BOOLEAN : ConsoleUi(in, overflow_checks)

\* the PrintConsoleLine events of a frame: one line, or a plain and a styled
\* line
SamplePrintEvents ==
    { <<PrintConsoleLine(<<"o", "k">>)>>,
      <<PrintConsoleLine(<<"o", "k">>), PrintConsoleLine(<<ESC, "[", "1", "m", "h", "i">>)>> }

\* mutant: the newest line goes to the front
push_front_all(scrollback, events) ==
    [i \in 1..Len(events) |-> events[Len(events) + 1 - i].line] \o scrollback

\* `for event in events.read() { console_state.scrollback.push(event.line.clone()); }`
push_all(scrollback, events) ==
    scrollback \o [i \in 1..Len(events) |-> events[i].line]

\* one run of receive_console_line, with room in the scrollback
ReceiveConsoleLine ==
    /\ ui_pc = "run"
    /\ \E events \in SamplePrintEvents :
          /\ Len(state.scrollback) + Len(events) <= MaxScrollback
          /\ state' = [state EXCEPT !.scrollback = push_all(@, events)]
          /\ frame' = [system |-> "receive_console_line", events |-> events]
    /\ UNCHANGED <<ui_pc, console_config, console_open, command_entered>>
    /\ UNCHANGED NotConsoleUi

NextConsole == ConsoleUiEdit \/ ReceiveConsoleLine

SpecConsole == InitConsole /\ [][NextConsole]_vars

NextToggle == ConsoleUiKeys

SpecToggle == InitToggle /\ [][NextToggle]_vars

(***************************************************************************)
(* The console window: history, toggle, Enter, scrollback.                 *)
(***************************************************************************)
B_log == <<"l", "o", "g", " ", "\"", "h", " ", "i", "\"">>

B_x == <<"x">>

InvalidCommand ==
    <<"e", "r", "r", "o", "r", ":", " ", "I", "n", "v", "a", "l", "i", "d", " ",
      "c", "o", "m", "m", "a", "n", "d">>

Prompt == <<"$", " ">>

\* this step is a run of console_ui that drew the window
WindowDrawn == frame'.system = "console_ui" /\ frame'.ctx /\ console_open'

\* this step is an Enter in the window
EnterActs ==
    /\ WindowDrawn
    /\ frame'.lost_focus
    /\ "Enter" \in frame'.key_pressed

\* the input line as Enter and the arrows find it: what the frame typed, or
\* what was there
BufMet == IF frame'.text = None THEN state.buf ELSE frame'.text[1]

Blank(b) == \A i \in DOMAIN b : b[i] \in {" ", "\t"}

\* C21: the history never holds more than history_size commands after the
\* draft slot at index 0, and an Enter that finds the list full drops the back
\* of the list, the oldest command: the draft and the commands before the
\* back stay, behind the command entered.
C21_HistoryBounded ==
    /\ [](Len(state.history) - 1 <= console_config.history_size)
    /\ [][(/\ EnterActs
           /\ ~Blank(BufMet)
           /\ Len(state.history) - 1 = console_config.history_size)
            => LET filled == <<state.history[1], BufMet>> \o Tail(state.history)
               IN  state'.history = SubSeq(filled, 1, Len(filled) - 1)]_vars

\* history_size 1: `log "h i"` was entered, then x, and only x is kept
C21_Witness ==
    /\ console_config.history_size = 1
    /\ state.scrollback = <<Prompt \o B_log, Prompt \o B_x, InvalidCommand>>
    /\ state.history = << <<>>, B_x >>

\* some keyboard event of the frame f is a press of one of the keys
TogglePress(f, keys) ==
    \E i \in DOMAIN f.keyboard_input_events :
        /\ f.keyboard_input_events[i].state = "Pressed"
        /\ f.keyboard_input_events[i].key_code \in {keys[k] : k \in DOMAIN keys}

\* the press counts: the console is open, or no other widget wants the keys
ToggleDue ==
    /\ TogglePress(frame', console_config.keys)
    /\ (console_open \/ ~frame'.wants_keyboard_input)

\* C22 as it is written: in every tick the open flag flips exactly when a
\* configured key is pressed in the tick and the console is open or no other
\* widget wants the keyboard.
C22_ToggleInEveryTick ==
    [][frame'.system = "console_ui"
          => ((console_open' # console_open) <=> ToggleDue)]_vars

\* C22: in a tick with an egui context the open flag flips exactly when a
\* configured key is pressed in the tick and the console is open or no other
\* widget wants the keyboard, once however many presses there are; in a tick
\* without an egui context the flag stays as it is.
C22_ToggleWithContext ==
    [][frame'.system = "console_ui"
          => ((console_open' # console_open) <=> (frame'.ctx /\ ToggleDue))]_vars

\* two presses of the key in one tick, and the console is open after it
C22_Witness ==
    /\ frame.system = "console_ui"
    /\ frame.ctx
    /\ ~frame.wants_keyboard_input
    /\ frame.keyboard_input_events =
          <<KeyboardInput("Backquote", "Pressed"), KeyboardInput("Backquote", "Pressed")>>
    /\ console_open

\* C24: in every state that Enter, the arrows, Ctrl+L, typing and printed
\* lines lead to, the history is not empty and history_index is the index of
\* one of its entries, and no run of console_ui has ended in the panic of
\* insert(1, ..), get_mut(0).unwrap() or get(history_index).unwrap().
C24_HistoryIndexInRange ==
    /\ state.history # <<>>
    /\ state.history_index \in 0..(Len(state.history) - 1)
    /\ ui_pc # "index"

\* the index on the last entry of a full history, after an Enter that put a
\* command in and dropped the back
C24_Witness ==
    /\ frame.system = "console_ui"
    /\ frame.lost_focus
    /\ console_config.history_size = 1
    /\ state.history_index = 1
    /\ Len(state.history) = 2
    /\ state.scrollback = <<Prompt \o B_log, Prompt \o B_x, InvalidCommand>>

\* the list after a command b is put behind the draft slot and, the list
\* being full, the back is dropped
Entered(history, b, history_size) ==
    LET filled == <<history[1], b>> \o Tail(history)
    IN  IF Len(history) > history_size THEN SubSeq(filled, 1, Len(filled) - 1)
        ELSE filled

\* C25: Enter on a buffer that is empty or blank appends one empty line to
\* the scrollback, leaves buf, history and history_index as they are and
\* sends no event; Enter on any other buffer appends the prompt symbol and the
\* buffer to the scrollback, puts the buffer at position 1 of the history,
\* position 0 untouched, and leaves buf empty.
C25_EnterFrameEffect ==
    [][(EnterActs /\ ~frame'.ctrl) =>
          IF Blank(BufMet)
          THEN /\ state' = [state EXCEPT !.buf = BufMet, !.scrollback = Append(@, <<>>)]
               /\ command_entered' = <<>>
          ELSE /\ Len(state'.scrollback) > Len(state.scrollback)
               /\ SubSeq(state'.scrollback, 1, Len(state.scrollback) + 1) =
                     Append(state.scrollback, Prompt \o BufMet)
               /\ state'.history =
                     Entered(state.history, BufMet, console_config.history_size)
               /\ state'.buf = <<>>]_vars

\* the words a shell makes of the buffers
ShellTokens(b) ==
    CASE b = B_log -> <<T_name, <<"h", " ", "i">> >>
      [] b = B_x -> <<B_x>>
      [] OTHER -> <<>>

\* C26: every ConsoleCommandEntered event a run of console_ui sends names a
\* registered command; an Enter whose first word is not a registered name
\* sends no event and appends "error: Invalid command" after the echoed
\* input, and an Enter whose first word is a registered name sends exactly
\* one event, with the other words as args.
C26_OnlyRegisteredCommands ==
    [][frame'.system = "console_ui" =>
          /\ \A i \in DOMAIN command_entered' :
                command_entered'[i].command_name \in console_config.commands
          /\ (EnterActs /\ ~frame'.ctrl /\ ShellTokens(BufMet) # <<>>) =>
                LET words == ShellTokens(BufMet)
                IN  IF Head(words) \in console_config.commands
                    THEN command_entered' =
                            <<ConsoleCommandEntered(Head(words), Tail(words))>>
                    ELSE /\ command_entered' = <<>>
                         /\ state'.scrollback =
                               state.scrollback \o <<Prompt \o BufMet, InvalidCommand>>]_vars

\* the frame f has Ctrl+L in it
CtrlL(f) ==
    /\ f.ctrl
    /\ \E i \in DOMAIN f.keyboard_input_events :
          f.keyboard_input_events[i] = KeyboardInput("KeyL", "Pressed")

\* C27: the scrollback changes only by lines appended at its end, the lines
\* of the PrintConsoleLine events in their order and the echo and error
\* lines of Enter, or by being emptied by Ctrl+L in the open window; what is
\* in it is never reordered or edited, and Ctrl+L leaves history,
\* history_index and the open flag as they are.
C27_ScrollbackAppendOnly ==
    [][LET old == state.scrollback
           new == state'.scrollback
       IN  IF frame'.system = "receive_console_line"
           THEN new = old \o [i \in DOMAIN frame'.events |-> frame'.events[i].line]
           ELSE IF frame'.system # "console_ui" THEN new = old
           ELSE /\ \/ new = old
                   \/ WindowDrawn /\ CtrlL(frame') /\ new = <<>>
                   \/ /\ EnterActs
                      /\ new \in {Append(old, <<>>),
                                  Append(old, Prompt \o BufMet),
                                  old \o <<Prompt \o BufMet, InvalidCommand>>}
                /\ (/\ WindowDrawn /\ CtrlL(frame')
                    /\ frame'.key_pressed = {} /\ frame'.text = None)
                      => /\ state' = [state EXCEPT !.scrollback = <<>>]
                         /\ console_open' = console_open]_vars

\* the echo of an Enter, then two printed lines in their order
C27_Witness ==
    /\ frame.system = "receive_console_line"
    /\ Len(frame.events) = 2
    /\ state.scrollback =
          <<Prompt \o B_log, <<"o", "k">>, <<ESC, "[", "1", "m", "h", "i">> >>

\* this step is an ArrowUp in the window that the code acts on, from index 0
UpFromDraft ==
    /\ WindowDrawn
    /\ frame'.has_focus
    /\ "ArrowUp" \in frame'.key_pressed
    /\ state.history_index = 0
    /\ Len(state.history) > 1

\* this step is an ArrowDown in the window, back to index 0
DownToDraft ==
    /\ WindowDrawn
    /\ frame'.has_focus
    /\ frame'.key_pressed = {"ArrowDown"}
    /\ state.history_index = 1

\* C28: from history_index 0 with a command stored, ArrowUp and then
\* ArrowDown leave history_index 0 and the buffer as it was before the
\* ArrowUp, whatever the buffer: ArrowUp goes to index 1 and leaves the
\* buffer it met in the draft slot, and ArrowDown from index 1 goes to index 0
\* and puts the draft slot into the buffer, the history as it was.
C28_DraftRoundTrip ==
    /\ [][UpFromDraft => (state'.history_index = 1 /\ state'.history[1] = BufMet)]_vars
    /\ [][DownToDraft =>
             /\ state'.history_index = 0
             /\ state'.buf = state.history[1]
             /\ state'.history = state.history]_vars

====
